---- MODULE Spec2Model ----
(***************************************************************************)
(* The gapminder HTTP service of backend/main.py: one FastAPI application  *)
(* with a CORS middleware, the health route GET / and the data route       *)
(* GET /api/gapminder, which reads every row of the gapminder_data table   *)
(* (backend/src/models.py) and renames its columns to the wire fields.     *)
(*                                                                         *)
(* Values are modelled with their type: a stored value is [t, v] with t    *)
(* the column type that holds it ("Integer", "Float", "String") or "NULL", *)
(* and v its text; a wire value is the JSON token the response carries,    *)
(* [t, v] with t in "integer", "number", "string", "null".                 *)
(***************************************************************************)
EXTENDS Integers, Sequences, FiniteSets, TLC

\* Largest primary key of the tables explored (tables hold 0..MaxRows rows).
MaxRows == 2
\* Number of requests that may be in flight at the same time.
NReq == 2

Requests == 1..NReq

VARIABLES
    table,    \* gapminder_data: primary key id -> row
    dbUp,     \* whether the relational store answers queries
    pc,       \* per request: where its handling stands
    route,    \* per request: the path requested
    origin,   \* per request: its Origin header (NoOrigin: none sent)
    session,  \* per request: whether it holds a storage session (db)
    data,     \* per request: the handler's local `data`, the rows queried
    resp      \* per request: the response written so far

vars == <<table, dbUp, pc, route, origin, session, data, resp>>

----------------------------------------------------------------------------
\* Stored values (models.py) and JSON values (the response encoding).

Integer(text) == [t |-> "Integer", v |-> text]
Float(text) == [t |-> "Float", v |-> text]
String(text) == [t |-> "String", v |-> text]
\* A column declared without nullable=False also holds NULL (Python None).
NULL == [t |-> "NULL", v |-> ""]

\* The columns of gapminder_data, with the type each is declared with.
ColumnType ==
    [id |-> "Integer", country |-> "String", continent |-> "String",
     year |-> "Integer", life_exp |-> "Float", pop |-> "Integer",
     gdp_per_cap |-> "Float"]

Columns == DOMAIN ColumnType

\* id is the primary key, hence NOT NULL; every other column is nullable.
Nullable == Columns \ {"id"}

\* What the JSON encoder writes for a Python value: int -> integer token,
\* float -> number token with a fraction, str -> string, None -> null.
JsonType(t) ==
    CASE t = "Integer" -> "integer"
      [] t = "Float" -> "number"
      [] t = "String" -> "string"
      [] t = "NULL" -> "null"

ToJson(value) == [t |-> JsonType(value.t), v |-> IF value.t = "NULL" THEN "null" ELSE value.v]

\* The first rows of the gapminder dataset, one per primary key.
Fixture ==
    << [country |-> "Afghanistan", continent |-> "Asia", year |-> "1952",
        life_exp |-> "28.801", pop |-> "8425333", gdp_per_cap |-> "779.4453145"],
       [country |-> "Albania", continent |-> "Europe", year |-> "1957",
        life_exp |-> "59.28", pop |-> "1476505", gdp_per_cap |-> "1942.284244"],
       [country |-> "Algeria", continent |-> "Africa", year |-> "1962",
        life_exp |-> "48.303", pop |-> "11000948", gdp_per_cap |-> "2550.81688"],
       [country |-> "Angola", continent |-> "Africa", year |-> "1967",
        life_exp |-> "35.985", pop |-> "5247469", gdp_per_cap |-> "5522.776375"] >>

IdText == << "1", "2", "3", "4" >>

\* A fully populated row with primary key i.
FullRow(i) ==
    [id |-> Integer(IdText[i]),
     country |-> String(Fixture[i].country),
     continent |-> String(Fixture[i].continent),
     year |-> Integer(Fixture[i].year),
     life_exp |-> Float(Fixture[i].life_exp),
     pop |-> Integer(Fixture[i].pop),
     gdp_per_cap |-> Float(Fixture[i].gdp_per_cap)]

\* A row with primary key i whose nullable columns were never set.
NullRow(i) == [c \in Columns |-> IF c \in Nullable THEN NULL ELSE Integer(IdText[i])]

\* The rows the table can hold under primary key i.
GapminderData(i) == {FullRow(i), NullRow(i)}

\* The table contents explored: any set of primary keys, each with a row.
Tables ==
    UNION { { tb \in [ids -> UNION {GapminderData(i) : i \in ids}] :
                \A i \in ids : tb[i] \in GapminderData(i) } : ids \in SUBSET (1..MaxRows) }

----------------------------------------------------------------------------
\* The HTTP surface.

RootPath == "/"
GapminderPath == "/api/gapminder"
Routes == {RootPath, GapminderPath}

\* allow_origins of the CORS middleware.
AllowOrigins == {"http://localhost:3000"}
\* The Origin headers requests are sent with: the allowed one and another.
Origins == AllowOrigins \cup {"http://evil.example"}
\* The Origin of a request that sent none (and of a slot with no request).
NoOrigin == "(no Origin header)"

NoHeaders == [h \in {} |-> ""]
NoResponse == [status |-> 0, kind |-> "none", items |-> <<>>, text |-> "", headers |-> NoHeaders]

\* A 200 JSON response with the value a handler returned.
JsonResponse(kind, items) ==
    [status |-> 200, kind |-> kind, items |-> items, text |-> "", headers |-> NoHeaders]

\* The response of the application's server-error layer to an exception no
\* handler caught. It is written outside the CORS middleware.
InternalServerError ==
    [status |-> 500, kind |-> "text", items |-> <<>>, text |-> "Internal Server Error",
     headers |-> NoHeaders]

\* The headers CORSMiddleware adds to the response of a request that sent
\* Origin: o (allow_origins is a list, allow_credentials=True).
CorsHeaders(o) ==
    IF o = NoOrigin THEN NoHeaders
    ELSE IF o \in AllowOrigins
         THEN ("Access-Control-Allow-Credentials" :> "true")
              @@ ("Access-Control-Allow-Origin" :> o) @@ ("Vary" :> "Origin")
         ELSE ("Access-Control-Allow-Credentials" :> "true")

\* CORSMiddleware around a response the application returned.
CORSMiddleware(o, response) == [response EXCEPT !.headers = CorsHeaders(o)]

\* QueryAll with a LIMIT 1 on the query: only the first row the store returns.
QueryAllLimited(tb) ==
    { rows \in [1..(IF DOMAIN tb = {} THEN 0 ELSE 1) -> {tb[i] : i \in DOMAIN tb}] : TRUE }

\* The orders in which the store may return the rows of tb to a query with
\* no ORDER BY: every enumeration of the rows.
QueryAll(tb) ==
    { rows \in [1..Cardinality(DOMAIN tb) -> {tb[i] : i \in DOMAIN tb}] :
        \A i \in DOMAIN tb : \E k \in DOMAIN rows : rows[k] = tb[i] }

\* WireObject with the two Float columns read into each other's key.
WireObjectSwapped(item) ==
    ("country" :> ToJson(item.country))
    @@ ("continent" :> ToJson(item.continent))
    @@ ("year" :> ToJson(item.year))
    @@ ("lifeExp" :> ToJson(item.gdp_per_cap))
    @@ ("pop" :> ToJson(item.pop))
    @@ ("gdpPercap" :> ToJson(item.life_exp))

\* WireObject that also copies the primary key.
WireObjectWithId(item) ==
    ("id" :> ToJson(item.id))
    @@ ("country" :> ToJson(item.country))
    @@ ("continent" :> ToJson(item.continent))
    @@ ("year" :> ToJson(item.year))
    @@ ("lifeExp" :> ToJson(item.life_exp))
    @@ ("pop" :> ToJson(item.pop))
    @@ ("gdpPercap" :> ToJson(item.gdp_per_cap))

\* The dict the handler builds for one item.
WireObject(item) ==
    ("country" :> ToJson(item.country))
    @@ ("continent" :> ToJson(item.continent))
    @@ ("year" :> ToJson(item.year))
    @@ ("lifeExp" :> ToJson(item.life_exp))
    @@ ("pop" :> ToJson(item.pop))
    @@ ("gdpPercap" :> ToJson(item.gdp_per_cap))

\* WireList with a filter in the comprehension: `for item in data if item.country`.
WireListFiltered(rows) ==
    LET kept == SelectSeq(rows, LAMBDA item : item.country.t # "NULL")
    IN [k \in DOMAIN kept |-> WireObject(kept[k])]

\* The list comprehension over data.
WireList(rows) == [k \in DOMAIN rows |-> WireObject(rows[k])]

----------------------------------------------------------------------------
Init ==
    /\ table \in Tables
    /\ dbUp \in BOOLEAN
    /\ pc = [r \in Requests |-> "idle"]
    /\ route = [r \in Requests |-> RootPath]
    /\ origin = [r \in Requests |-> NoOrigin]
    /\ session = [r \in Requests |-> FALSE]
    /\ data = [r \in Requests |-> <<>>]
    /\ resp = [r \in Requests |-> NoResponse]

\* The store becomes unreachable, or reachable again.
DbFail ==
    /\ dbUp
    /\ dbUp' = FALSE
    /\ UNCHANGED <<table, pc, route, origin, session, data, resp>>

DbRecover ==
    /\ ~dbUp
    /\ dbUp' = TRUE
    /\ UNCHANGED <<table, pc, route, origin, session, data, resp>>

\* A GET request arrives and is routed.
Receive(r, path, o) ==
    /\ pc[r] = "idle"
    /\ pc' = [pc EXCEPT ![r] = "routed"]
    /\ route' = [route EXCEPT ![r] = path]
    /\ origin' = [origin EXCEPT ![r] = o]
    /\ UNCHANGED <<table, dbUp, session, data, resp>>

\* root with a dependency check: it fails when the store is unreachable.
rootChecked(r) ==
    /\ pc[r] = "routed"
    /\ route[r] = RootPath
    /\ IF dbUp
       THEN /\ resp' = [resp EXCEPT ![r] =
                          CORSMiddleware(origin[r],
                              JsonResponse("object", << ("status" :> ToJson(String("Ready"))) >>))]
            /\ pc' = [pc EXCEPT ![r] = "done"]
       ELSE /\ pc' = [pc EXCEPT ![r] = "raised"]
            /\ UNCHANGED resp
    /\ UNCHANGED <<table, dbUp, route, origin, session, data>>

\* @app.get("/"): root(). Its return value is sent through the CORS
\* middleware.
root(r) ==
    /\ pc[r] = "routed"
    /\ route[r] = RootPath
    /\ resp' = [resp EXCEPT ![r] =
                  CORSMiddleware(origin[r],
                      JsonResponse("object", << ("status" :> ToJson(String("Ready"))) >>))]
    /\ pc' = [pc EXCEPT ![r] = "done"]
    /\ UNCHANGED <<table, dbUp, route, origin, session, data>>

\* Depends(get_db): the request acquires its storage session. Opening the
\* session does not contact the store.
get_db(r) ==
    /\ pc[r] = "routed"
    /\ route[r] = GapminderPath
    /\ session' = [session EXCEPT ![r] = TRUE]
    /\ pc' = [pc EXCEPT ![r] = "session"]
    /\ UNCHANGED <<table, dbUp, route, origin, data, resp>>

\* get_gapminder_data that fills the NULL country of the items it read and
\* commits them.
get_gapminder_data_committing(r) ==
    /\ pc[r] = "session"
    /\ IF dbUp
       THEN \E rows \in QueryAll(table) :
              /\ data' = [data EXCEPT ![r] = rows]
              /\ resp' = [resp EXCEPT ![r] =
                            CORSMiddleware(origin[r], JsonResponse("array", WireList(rows)))]
              /\ table' = [i \in DOMAIN table |->
                             IF table[i].country = NULL
                             THEN [table[i] EXCEPT !.country = String("")]
                             ELSE table[i]]
              /\ session' = [session EXCEPT ![r] = FALSE]
              /\ pc' = [pc EXCEPT ![r] = "done"]
       ELSE /\ pc' = [pc EXCEPT ![r] = "raised"]
            /\ UNCHANGED <<table, data, resp, session>>
    /\ UNCHANGED <<dbUp, route, origin>>

\* get_gapminder_data that catches the exception of the query and returns
\* an empty list.
get_gapminder_data_swallowing(r) ==
    /\ pc[r] = "session"
    /\ \E rows \in (IF dbUp THEN QueryAll(table) ELSE {<< >>}) :
          /\ data' = [data EXCEPT ![r] = rows]
          /\ resp' = [resp EXCEPT ![r] =
                        CORSMiddleware(origin[r], JsonResponse("array", WireList(rows)))]
          /\ session' = [session EXCEPT ![r] = FALSE]
          /\ pc' = [pc EXCEPT ![r] = "done"]
    /\ UNCHANGED <<table, dbUp, route, origin>>

\* get_gapminder_data that appends the rows to a list kept between requests
\* (here: the rows another request left) instead of a local one.
get_gapminder_data_shared(r) ==
    /\ pc[r] = "session"
    /\ IF dbUp
       THEN \E rows \in QueryAll(table) :
              LET left == data[CHOOSE q \in Requests : q # r] IN
              /\ data' = [data EXCEPT ![r] = left \o rows]
              /\ resp' = [resp EXCEPT ![r] =
                            CORSMiddleware(origin[r], JsonResponse("array", WireList(left \o rows)))]
              /\ session' = [session EXCEPT ![r] = FALSE]
              /\ pc' = [pc EXCEPT ![r] = "done"]
       ELSE /\ pc' = [pc EXCEPT ![r] = "raised"]
            /\ UNCHANGED <<data, resp, session>>
    /\ UNCHANGED <<table, dbUp, route, origin>>

\* @app.get("/api/gapminder"): the body of get_gapminder_data. It has no
\* await, so it runs to its return (or to the exception of the query)
\* without yielding to another request. Its return value is sent through
\* the CORS middleware and the request's session is closed.
get_gapminder_data(r) ==
    /\ pc[r] = "session"
    /\ IF dbUp
       THEN \E rows \in QueryAll(table) :
              /\ data' = [data EXCEPT ![r] = rows]
              /\ resp' = [resp EXCEPT ![r] =
                            CORSMiddleware(origin[r], JsonResponse("array", WireList(rows)))]
              /\ session' = [session EXCEPT ![r] = FALSE]
              /\ pc' = [pc EXCEPT ![r] = "done"]
       ELSE /\ pc' = [pc EXCEPT ![r] = "raised"]
            /\ UNCHANGED <<data, resp, session>>
    /\ UNCHANGED <<table, dbUp, route, origin>>

\* The exception of the query passes the CORS middleware and reaches the
\* application's server-error layer, which answers 500; the storage
\* session is closed and the process goes on serving.
ServerError(r) ==
    /\ pc[r] = "raised"
    /\ resp' = [resp EXCEPT ![r] = InternalServerError]
    /\ session' = [session EXCEPT ![r] = FALSE]
    /\ pc' = [pc EXCEPT ![r] = "done"]
    /\ UNCHANGED <<table, dbUp, route, origin, data>>

\* The client has read the response; the slot serves a later request.
Finish(r) ==
    /\ pc[r] = "done"
    /\ pc' = [pc EXCEPT ![r] = "idle"]
    /\ route' = [route EXCEPT ![r] = RootPath]
    /\ origin' = [origin EXCEPT ![r] = NoOrigin]
    /\ data' = [data EXCEPT ![r] = <<>>]
    /\ resp' = [resp EXCEPT ![r] = NoResponse]
    /\ UNCHANGED <<table, dbUp, session>>

Next ==
    \/ DbFail
    \/ DbRecover
    \/ \E r \in Requests, path \in Routes, o \in Origins : Receive(r, path, o)
    \/ \E r \in Requests : root(r)
    \/ \E r \in Requests : get_db(r)
    \/ \E r \in Requests : get_gapminder_data(r)
    \/ \E r \in Requests : ServerError(r)
    \/ \E r \in Requests : Finish(r)

Spec == Init /\ [][Next]_vars

----------------------------------------------------------------------------
\* Vocabulary of the properties.

\* The external (wire) field names.
WireKeys == {"country", "continent", "year", "lifeExp", "pop", "gdpPercap"}

\* Request r was answered 200 by the data route.
Served(r) == pc[r] = "done" /\ route[r] = GapminderPath /\ resp[r].status = 200

\* Request r was answered by the health route.
Pinged(r) == pc[r] = "done" /\ route[r] = RootPath

\* JSON value w carries stored value s unaltered.
SameValue(w, s) ==
    \/ s.t = "NULL" /\ w.t = "null"
    \/ s.t = "Integer" /\ w.t = "integer" /\ w.v = s.v
    \/ s.t = "Float" /\ w.t = "number" /\ w.v = s.v
    \/ s.t = "String" /\ w.t = "string" /\ w.v = s.v

\* Object obj is row under the documented renaming.
Renamed(obj, row) ==
    /\ WireKeys \subseteq DOMAIN obj
    /\ SameValue(obj["country"], row.country)
    /\ SameValue(obj["continent"], row.continent)
    /\ SameValue(obj["year"], row.year)
    /\ SameValue(obj["pop"], row.pop)
    /\ SameValue(obj["lifeExp"], row.life_exp)
    /\ SameValue(obj["gdpPercap"], row.gdp_per_cap)

\* How many elements of sequence s equal e.
Count(s, e) == Cardinality({k \in DOMAIN s : s[k] = e})

----------------------------------------------------------------------------
\* C1: every stored row is returned by GET /api/gapminder as an object whose
\* country, continent, year and pop equal the stored values of the same
\* name, whose lifeExp equals the stored life_exp and whose gdpPercap equals
\* the stored gdp_per_cap.
C1_RoundTrip ==
    \A r \in Requests : Served(r) =>
        \A i \in DOMAIN table :
            \E k \in DOMAIN resp[r].items :
                /\ data[r][k] = table[i]
                /\ Renamed(resp[r].items[k], table[i])

\* A fully populated row has been served.
C1_Witness ==
    \E r \in Requests : Served(r) /\ \E i \in DOMAIN table : table[i] = FullRow(i)

\* C2: the response of GET /api/gapminder has exactly one element per stored
\* row, in the order the query returned the rows: nothing is filtered out,
\* duplicated or reordered by the handler, and an empty table gives [].
C2_EntireTable ==
    \A r \in Requests : Served(r) =>
        /\ resp[r].kind = "array"
        /\ Len(resp[r].items) = Cardinality(DOMAIN table)
        /\ Len(data[r]) = Len(resp[r].items)
        /\ \A i \in DOMAIN table : Count(data[r], table[i]) = 1
        /\ \A k \in DOMAIN data[r] : Renamed(resp[r].items[k], data[r][k])

\* A table of several rows has been served.
C2_Witness == \E r \in Requests : Served(r) /\ Len(resp[r].items) >= 2

\* The empty table has been served.
C2_WitnessEmpty == \E r \in Requests : Served(r) /\ DOMAIN table = {}

\* C3: every element of every response of GET /api/gapminder holds the six
\* external fields with year and pop integers, lifeExp and gdpPercap numbers,
\* country and continent strings, whatever the table holds.
C3_FieldTypes ==
    \A r \in Requests : Served(r) =>
        \A k \in DOMAIN resp[r].items :
            LET obj == resp[r].items[k] IN
            /\ WireKeys \subseteq DOMAIN obj
            /\ obj["year"].t = "integer"
            /\ obj["pop"].t = "integer"
            /\ obj["lifeExp"].t \in {"number", "integer"}
            /\ obj["gdpPercap"].t \in {"number", "integer"}
            /\ obj["country"].t = "string"
            /\ obj["continent"].t = "string"

\* C4: GET / answers 200 {"status": "Ready"} in every state of the store: it
\* takes no storage session, never raises, and can always run.
C4_RootAlwaysReady ==
    \A r \in Requests : route[r] = RootPath =>
        /\ ~session[r]
        /\ pc[r] \in {"idle", "routed", "done"}
        /\ pc[r] = "routed" => ENABLED root(r)
        /\ pc[r] = "done" =>
              /\ resp[r].status = 200
              /\ resp[r].kind = "object"
              /\ resp[r].items = << ("status" :> [t |-> "string", v |-> "Ready"]) >>

\* The health route has answered while the store is unreachable.
C4_Witness == \E r \in Requests : Pinged(r) /\ ~dbUp

\* C5 as stated: two answers of GET /api/gapminder with no write between
\* them are identical, order of the elements included.
C5_IdenticalResponses ==
    \A r1, r2 \in Requests :
        Served(r1) /\ Served(r2) => resp[r1].items = resp[r2].items

\* C5 as amended: two successful answers of GET /api/gapminder with no write
\* between them hold the same elements, each the same number of times.
C5_SameElements ==
    \A r1, r2 \in Requests :
        Served(r1) /\ Served(r2) =>
            /\ Len(resp[r1].items) = Len(resp[r2].items)
            /\ \A k \in DOMAIN resp[r1].items :
                  Count(resp[r1].items, resp[r1].items[k])
                      = Count(resp[r2].items, resp[r1].items[k])

\* Two requests were served the same rows in different orders.
C5_Witness ==
    \E r1, r2 \in Requests :
        /\ Served(r1) /\ Served(r2)
        /\ Len(resp[r1].items) >= 2
        /\ resp[r1].items # resp[r2].items

\* C6: no step of the service changes gapminder_data.
C6_StoreUnchanged == [][table' = table]_vars

\* Both routes have answered over a table that holds rows.
C6_Witness ==
    /\ DOMAIN table # {}
    /\ \E r1, r2 \in Requests : Served(r1) /\ Pinged(r2)

\* C7: every object of the response has exactly the six wire keys: no id, no
\* storage-named key, and no value of it is the row's id.
C7_IdNeverSerialized ==
    \A r \in Requests : Served(r) =>
        \A k \in DOMAIN resp[r].items :
            /\ DOMAIN resp[r].items[k] = WireKeys
            /\ \A key \in DOMAIN resp[r].items[k] :
                  resp[r].items[k][key].v # data[r][k].id.v

\* A row has been serialized.
C7_Witness == \E r \in Requests : Served(r) /\ Len(resp[r].items) >= 1

\* C8: a query that finds the store unreachable fails its request with a 5xx
\* answer that holds no array of records; nothing of the response is written
\* before the failure, and the other requests are left as they are.
C8_FailsCleanly ==
    [][\A r \in Requests :
          /\ (pc[r] = "session" /\ ~dbUp /\ pc'[r] # "session") =>
                pc'[r] = "raised" /\ resp'[r] = NoResponse
          /\ (pc[r] = "raised" /\ pc'[r] # "raised") =>
                /\ pc'[r] = "done"
                /\ resp'[r].status \in 500..599
                /\ resp'[r].kind # "array"
                /\ resp'[r].items = << >>
                /\ \A q \in Requests \ {r} : pc'[q] = pc[q] /\ resp'[q] = resp[q]]_vars

\* A request has failed with 500 and the service has answered others.
C8_Witness ==
    \E r, q \in Requests :
        /\ pc[r] = "done" /\ route[r] = GapminderPath /\ resp[r].status = 500
        /\ Served(q)

\* C9: every answered request that sent Origin: http://localhost:3000 gets
\* Access-Control-Allow-Origin equal to it, with credentials allowed; a
\* request with another Origin never gets its origin allowed.
C9_AllowOriginHeader ==
    \A r \in Requests : pc[r] = "done" =>
        LET h == resp[r].headers IN
        IF origin[r] \in AllowOrigins
        THEN /\ "Access-Control-Allow-Origin" \in DOMAIN h
             /\ h["Access-Control-Allow-Origin"] = origin[r]
             /\ "Access-Control-Allow-Credentials" \in DOMAIN h
             /\ h["Access-Control-Allow-Credentials"] = "true"
        ELSE "Access-Control-Allow-Origin" \in DOMAIN h =>
                h["Access-Control-Allow-Origin"] # origin[r]

\* Answer a is one a request for path with Origin o has when it is the only
\* request: 200 Ready from the health route; from the data route the rows of
\* the table in an order the store may return them, or the 500 of a store
\* that is unreachable.
AloneResponse(a, path, o) ==
    IF path = RootPath
    THEN a = [status |-> 200, kind |-> "object",
              items |-> << ("status" :> [t |-> "string", v |-> "Ready"]) >>,
              text |-> "", headers |-> CorsHeaders(o)]
    ELSE \/ a = InternalServerError
         \/ /\ a.status = 200 /\ a.kind = "array" /\ a.text = ""
            /\ a.headers = CorsHeaders(o)
            /\ \E rows \in QueryAll(table) :
                  a.items = [k \in DOMAIN rows |-> WireObject(rows[k])]

\* C10: however the requests interleave, every answer is one the same
\* request has when it runs alone over the same table.
C10_Independent ==
    \A r \in Requests : pc[r] = "done" => AloneResponse(resp[r], route[r], origin[r])

\* One request was served while another was holding its session.
C10_Witness ==
    \E r, q \in Requests : Served(r) /\ Len(resp[r].items) >= 2 /\ pc[q] = "session"

====
